---- MODULE Spec2Model ----
(***************************************************************************)
(* Model of fontscraper/main.py: the download watcher                      *)
(* (wait_for_new_download), the collision-safe relocator (safe_move), the  *)
(* name sanitizer (sanitize_stem) and the fonts x phrases loop of main,    *)
(* running against an external downloader that writes into the temporary  *)
(* directory while the watcher polls it.                                   *)
(*                                                                         *)
(* Strings are sequences of one-character strings.  A file name of the     *)
(* temporary directory is the sequence of its dot-separated components     *)
(* (<<"t","stl","part">> is t.stl.part).  Time is in milliseconds and      *)
(* passes in time.sleep of set_phrase and of the poll loop; the code uses   *)
(* differences of time.time() only, so every phrase counts from 0 and the  *)
(* files that are older have modification time 0.                          *)
(***************************************************************************)
EXTENDS Integers, Sequences, FiniteSets, TLC

\* ---------------------------------------------------------------- bounds
NumFonts   == 2   \* fonts yielded by iter_ttf_fonts
NumPhrases == 3   \* phrases loaded from the phrase file
TimeoutS   == 2   \* --download-timeout, seconds
MaxSize    == 2   \* most chunks a download writes
MaxFaults  == 1   \* collaborator (selenium) failures injected in one run

\* ------------------------------------------------------ program constants
PollMs     == 200     \* time.sleep(0.2)
QuiesceMs  == 1000    \* (now - stable_since) >= 1.0
RangeStop  == 10000   \* range(1, 10000)
MaxLenDefault == 80   \* max_len: int = 80
RenderSleepMs == 400  \* --render-sleep default=0.4

None == -1            \* Python None for last_size / stable_since

\* ------------------------------------------------------------- utilities
RECURSIVE Concat(_)
Concat(ss) == IF ss = <<>> THEN <<>> ELSE Head(ss) \o Concat(Tail(ss))

Last(s) == s[Len(s)]

\* ------------------------------------------------- temporary-dir file names
\* str.lower() on the extensions that occur
Lower(c) ==
    CASE c = "PART" -> "part"
      [] c = "TMP"  -> "tmp"
      [] OTHER      -> c

\* Path.suffix: the text from the last dot, empty when that dot is the first
\* character of the name or its last one
Suffix(n) ==
    IF Len(n) < 2 \/ Last(n) = "" \/ (Len(n) = 2 /\ n[1] = "")
    THEN ""
    ELSE Last(n)

\* str.endswith(".part")
EndsWithDotPart(n) == Len(n) >= 2 /\ Last(n) = "part"

PartialSuffixes == {"part", "tmp", "crdownload"}

is_partial_noendswith(n) == Suffix(n) # "" /\ Lower(Suffix(n)) \in PartialSuffixes \ {"part"}

is_partial(n) ==
    EndsWithDotPart(n) \/ (Suffix(n) # "" /\ Lower(Suffix(n)) \in PartialSuffixes)

\* ------------------------------------------------------------ sanitize_stem
Whitespace == {" ", "\t"}                    \* what str.strip() removes
Digits     == <<"0","1","2","3","4","5","6","7","8","9">>
DigitSet   == {Digits[i] : i \in 1..10}
Letters    == {"a", "b", "F", "i", "t", "e", "m", "s", "l",
               "H", "o", "W", "r", "d", "M", "y", "n"}
\* \w of a str pattern: letters, digits and the underscore
IsWord(c)  == c \in Letters \cup DigitSet \cup {"_"}
\* the complement of the class [^\w\-\.]
Allowed(c) == IsWord(c) \/ c = "-" \/ c = "."

RECURSIVE LStrip(_, _)
LStrip(s, cs) == IF s # <<>> /\ Head(s) \in cs THEN LStrip(Tail(s), cs) ELSE s

RECURSIVE RStrip(_, _)
RStrip(s, cs) ==
    IF s # <<>> /\ Last(s) \in cs THEN RStrip(SubSeq(s, 1, Len(s) - 1), cs) ELSE s

Strip(s, cs) == RStrip(LStrip(s, cs), cs)

RECURSIVE DropDisallowed(_)
DropDisallowed(s) ==
    IF s # <<>> /\ ~Allowed(Head(s)) THEN DropDisallowed(Tail(s)) ELSE s

\* re.sub(r"[^\w\-\.]+", "_", name)
RECURSIVE SubDisallowedRuns(_)
SubDisallowedRuns(s) ==
    IF s = <<>> THEN <<>>
    ELSE IF Allowed(Head(s)) THEN <<Head(s)>> \o SubDisallowedRuns(Tail(s))
    ELSE <<"_">> \o SubDisallowedRuns(DropDisallowed(Tail(s)))

\* re.sub(r"_+", "_", name)
RECURSIVE CollapseUnderscores(_)
CollapseUnderscores(s) ==
    IF s = <<>> THEN <<>>
    ELSE IF Head(s) = "_" THEN <<"_">> \o CollapseUnderscores(LStrip(Tail(s), {"_"}))
    ELSE <<Head(s)>> \o CollapseUnderscores(Tail(s))

Truncate(s, n) == SubSeq(s, 1, IF Len(s) < n THEN Len(s) ELSE n)

sanitize_stem(name, max_len) ==
    LET a == Strip(name, Whitespace)
        b == SubDisallowedRuns(a)
        c == CollapseUnderscores(b)
        d == Strip(c, {"_"})
        e == IF d = <<>> THEN <<"i", "t", "e", "m">> ELSE d
    IN  Truncate(e, max_len)

\* ------------------------------------------------- output-directory names
\* index (1-based) of the last "." of a name, 0 when it has none
RECURSIVE LastDot(_)
LastDot(s) ==
    IF s = <<>> THEN 0 ELSE IF Last(s) = "." THEN Len(s)
    ELSE LastDot(SubSeq(s, 1, Len(s) - 1))

\* Path.suffix and Path.stem of a name given as characters
HasSuffix(s)  == LastDot(s) > 1 /\ LastDot(s) < Len(s)
PathSuffix(s) == IF HasSuffix(s) THEN SubSeq(s, LastDot(s), Len(s)) ELSE <<>>
PathStem(s)   == IF HasSuffix(s) THEN SubSeq(s, 1, LastDot(s) - 1) ELSE s

\* decimal digits of a natural number
RECURSIVE Dec(_)
Dec(i) == IF i < 10 THEN <<Digits[i + 1]>> ELSE Dec(i \div 10) \o <<Digits[(i % 10) + 1]>>

Fmt02d_unpadded(i) == Dec(i)

\* format spec 02d: decimal, zero-padded to at least two digits
Fmt02d(i) == IF i < 10 THEN <<"0">> \o Dec(i) ELSE Dec(i)

DigitValue(c) == CHOOSE v \in 0..9 : Digits[v + 1] = c

RECURSIVE ParseDec(_)
ParseDec(d) ==
    IF d = <<>> THEN 0 ELSE 10 * ParseDec(SubSeq(d, 1, Len(d) - 1)) + DigitValue(Last(d))

\* dst.with_name(f"{stem}_{i:02d}{suffix}")
CandName(dst, i) == PathStem(dst) \o <<"_">> \o Fmt02d(i) \o PathSuffix(dst)

\* The output directory is `out`, a function from the names of its files to
\* their contents, together with `bulk`: a block of files that are there from
\* the start, the numbered variants 1..hi of the name bulk.base.
NoBulk == [base |-> <<>>, hi |-> 0]

InBulk(b, name) ==
    LET st == PathStem(b.base)
        sf == PathSuffix(b.base)
        nd == Len(name) - Len(st) - 1 - Len(sf)
        d  == SubSeq(name, Len(st) + 2, Len(st) + 1 + nd)
    IN  /\ b.hi >= 1
        /\ nd >= 2
        /\ SubSeq(name, 1, Len(st)) = st
        /\ name[Len(st) + 1] = "_"
        /\ SubSeq(name, Len(name) - Len(sf) + 1, Len(name)) = sf
        /\ \A k \in 1..nd : d[k] \in DigitSet
        /\ ParseDec(d) \in 1..b.hi
        /\ Fmt02d(ParseDec(d)) = d

\* Path.exists() in the output directory
Exists(o, b, name) == name \in DOMAIN o \/ InBulk(b, name)

\* cand.exists() for the i-th numbered variant of dst
CandExists(o, b, dst, i) ==
    \/ (dst = b.base /\ i \in 1..b.hi)
    \/ Exists(o, b, CandName(dst, i))

\* ------------------------------------------------------------------ state
VARIABLES
    clock,         \* time.time(), ms since the current watcher call began
    tmp,           \* --tmp directory: file name -> [size, mtime, trig, viaPart]
    dls,           \* the downloader: downloads "cur" and "old" that may still write
    pc,            \* where main is
    fi, pi,        \* index of the current font and of the current phrase
    faults,        \* collaborator failures so far
    before,        \* main: before = list_files(args.tmp)
    wpc,           \* where wait_for_new_download is
    deadline,      \* wait_for_new_download: deadline
    fresh,         \* wait_for_new_download: new
    last_size,     \* wait_for_new_download: last_size
    stable_since,  \* wait_for_new_download: stable_since
    result,        \* the path wait_for_new_download returned
    seen,          \* history: the candidate last observed, its size, and since when
    out, bulk,     \* --output directory
    mv,            \* history: the last safe_move call and the directory before it
    log,           \* the console transcript
    slow,          \* input: the click whose download takes its time (0: none)
    phrase_file,   \* input: the file --phrases names, [exists, lines]
    driver,        \* the browser session: [st, quits, stale]
    setups,        \* history: the fonts whose per-font setup was begun, in order
    san            \* sanitize_stem called on its own: [name, max_len, outs]

vars == <<clock, tmp, dls, pc, fi, pi, faults, before, wpc, deadline, fresh,
          last_size, stable_since, result, seen, out, bulk, mv, log, slow,
          phrase_file, driver, setups, san>>

envVars   == <<clock, tmp, dls>>
watchVars == <<before, wpc, deadline, fresh, last_size, stable_since, result, seen>>
outVars   == <<out, bulk, mv>>
runVars   == <<phrase_file, driver, setups, san>>

\* ---------------------------------------------------------------- inputs
\* font files as iter_ttf_fonts yields them: F1.ttf, F2.ttf, ...
FontName(f) == <<"F">> \o Dec(f) \o <<".", "t", "t", "f">>

\* the phrase file; the first three phrases sanitize to a, a and a_01
PhrasePool == << <<"a">>, <<"a", "!">>, <<"a", "_", "0", "1">>, <<"b">>, <<"b", " ", "b">> >>
Phrases    == SubSeq(PhrasePool, 1, NumPhrases)

out_name_single(font_file, phrase) ==
    Concat(<< sanitize_stem(PathStem(font_file), MaxLenDefault),
              <<"_">>,
              sanitize_stem(phrase, MaxLenDefault),
              <<".", "s", "t", "l">> >>)

\* main: out_name = f"{sanitize_stem(font_path.stem)}__{sanitize_stem(phrase)}.stl"
out_name(font_file, phrase) ==
    Concat(<< sanitize_stem(PathStem(font_file), MaxLenDefault),
              <<"_", "_">>,
              sanitize_stem(phrase, MaxLenDefault),
              <<".", "s", "t", "l">> >>)

OutName(f, p) == out_name(FontName(f), Phrases[p])

\* ------------------------------------------------------------ load_phrases
\* the usable lines of a phrase file: stripped, blank and # lines dropped
RECURSIVE UsableLines(_)
UsableLines(lines) ==
    IF lines = <<>> THEN <<>>
    ELSE LET s == Strip(Head(lines), Whitespace)
         IN  (IF s = <<>> \/ Head(s) = "#" THEN <<>> ELSE <<s>>)
                 \o UsableLines(Tail(lines))

load_phrases(file) == IF ~file.exists THEN <<>> ELSE UsableLines(file.lines)

\* a phrase file that holds Phrases, among a comment, a blank line and padding
RECURSIVE Padded(_)
Padded(ps) ==
    IF ps = <<>> THEN <<>>
    ELSE << <<" ">> \o Head(ps) \o <<" ", "\t">>, <<" ">> >> \o Padded(Tail(ps))
GoodFile == [exists |-> TRUE,
             lines |-> << <<"#", "a">>, <<" ", "#", "b">> >> \o Padded(Phrases)]
PhraseFiles ==
    { GoodFile,
      [exists |-> FALSE, lines |-> <<>>],
      [exists |-> TRUE, lines |-> <<>>],
      [exists |-> TRUE, lines |-> << <<"#", "a">>, <<>>, <<" ", "\t">>, <<" ", "#">> >>] }

\* ------------------------------------------------------------- the driver
NoDriver == [st |-> "none", quits |-> 0, stale |-> FALSE]
\* make_driver returned a session
LiveDriver == [st |-> "live", quits |-> 0, stale |-> FALSE]
\* an operation on the driver; stale records one on a session that is not live
Used(d) == IF d.st = "live" THEN d ELSE [d EXCEPT !.stale = TRUE]
\* driver.quit()
Quit(d) == [st |-> "quit", quits |-> d.quits + 1, stale |-> d.stale \/ d.st # "live"]

\* the click of pair (f, p) is the trigger number Trigger(f, p)
Trigger(f, p) == (f - 1) * NumPhrases + p

\* ------------------------------------------------------------- downloader
\* names the browser gives a finished download, in its order of preference
FinalNames == << <<"t", "stl">>, <<"u", "stl">> >>
\* direct: writes the final name; cr: writes <final>.crdownload and renames it;
\* ff: creates an empty final name, writes <final>.part and renames it over
Styles     == {"direct", "cr", "ff"}
PartName(final, style) == final \o << IF style = "ff" THEN "part" ELSE "crdownload" >>

IdleDl == [trig |-> 0, phase |-> "idle", style |-> "none", final |-> <<>>]
NewDl(t) == [trig |-> t, phase |-> "new", style |-> "none", final |-> <<>>]
File(sz, t, vp) == [size |-> sz, mtime |-> clock, trig |-> t, viaPart |-> vp]

Target(d) == IF d.style = "direct" THEN d.final ELSE PartName(d.final, d.style)
Owns(d, n) == n \in DOMAIN tmp /\ tmp[n].trig = d.trig

Remove(dir, names) == [n \in DOMAIN dir \ names |-> dir[n]]

\* the same files with time counted from now
Rebased(dir) == [n \in DOMAIN dir |-> [dir[n] EXCEPT !.mtime = 0]]

NameFree(n) == \A st \in Styles : n \notin DOMAIN tmp /\ PartName(n, st) \notin DOMAIN tmp

\* the download starts: it creates its file(s), empty
DlBegin(s) ==
    /\ dls[s].phase = "new"
    /\ \E k \in 1..Len(FinalNames), st \in Styles :
        LET n == FinalNames[k]
            d == [dls[s] EXCEPT !.phase = "writing", !.style = st, !.final = n]
            made == IF st = "direct" THEN {n}
                    ELSE IF st = "cr" THEN {PartName(n, st)}
                    ELSE {n, PartName(n, st)}
        IN  /\ NameFree(n)
            /\ \A j \in 1..(k - 1) : ~NameFree(FinalNames[j])
            /\ tmp' = [x \in DOMAIN tmp \cup made |->
                         IF x \in made THEN File(0, d.trig, FALSE) ELSE tmp[x]]
            /\ dls' = [dls EXCEPT ![s] = d]
    /\ UNCHANGED <<clock, pc, fi, pi, faults, log, slow>>
    /\ UNCHANGED watchVars /\ UNCHANGED outVars
    /\ UNCHANGED runVars

\* the download writes one more chunk
DlWrite(s) ==
    /\ dls[s].phase = "writing"
    /\ Owns(dls[s], Target(dls[s]))
    /\ tmp[Target(dls[s])].size < MaxSize
    /\ tmp' = [tmp EXCEPT ![Target(dls[s])] =
                 [@ EXCEPT !.size = @ + 1, !.mtime = clock]]
    /\ UNCHANGED <<clock, dls, pc, fi, pi, faults, log, slow>>
    /\ UNCHANGED watchVars /\ UNCHANGED outVars
    /\ UNCHANGED runVars

\* the download completes: a partial file is renamed to the final name
DlFinish(s) ==
    /\ dls[s].phase = "writing"
    /\ LET d == dls[s]
           p == Target(d)
       IN  tmp' = IF d.style # "direct" /\ Owns(d, p)
                  THEN [x \in (DOMAIN tmp \ {p}) \cup {d.final} |->
                          IF x = d.final THEN [tmp[p] EXCEPT !.viaPart = TRUE]
                          ELSE tmp[x]]
                  ELSE tmp
    /\ dls' = [dls EXCEPT ![s] = IdleDl]
    /\ UNCHANGED <<clock, pc, fi, pi, faults, log, slow>>
    /\ UNCHANGED watchVars /\ UNCHANGED outVars
    /\ UNCHANGED runVars

\* the download is cancelled: the browser removes what it created
DlCancel(s) ==
    /\ dls[s].phase = "writing"
    /\ LET d == dls[s]
       IN  tmp' = Remove(tmp, {n \in {d.final, Target(d)} : Owns(d, n)})
    /\ dls' = [dls EXCEPT ![s] = IdleDl]
    /\ UNCHANGED <<clock, pc, fi, pi, faults, log, slow>>
    /\ UNCHANGED watchVars /\ UNCHANGED outVars
    /\ UNCHANGED runVars

Slots == {"cur", "old"}
Downloader ==
    \E s \in Slots : DlBegin(s) \/ DlWrite(s) \/ DlFinish(s) \/ DlCancel(s)

\* --------------------------------------------------------------- safe_move
Old == [trig |-> 0, size |-> 0]                   \* a file there from the start
Content(f) == [trig |-> f.trig, size |-> f.size]

\* shutil.move(str(src), str(to)); it raises when src is gone
ShutilMove(o, t, src, to) ==
    IF src \in DOMAIN t
    THEN [ok |-> TRUE, path |-> to, err |-> "",
          out |-> [x \in DOMAIN o \cup {to} |-> IF x = to THEN Content(t[src]) ELSE o[x]],
          tmp |-> Remove(t, {src})]
    ELSE [ok |-> FALSE, path |-> <<>>, err |-> "FileNotFoundError", out |-> o, tmp |-> t]

FirstFree_unchecked(o, b, dst) == 1

\* for i in range(1, 10000): the first i whose name is unused, 0 when none is
FirstFree(o, b, dst) ==
    IF \E i \in 1..(RangeStop - 1) : ~CandExists(o, b, dst, i)
    THEN CHOOSE i \in 1..(RangeStop - 1) :
            /\ ~CandExists(o, b, dst, i)
            /\ \A j \in 1..(i - 1) : CandExists(o, b, dst, j)
    ELSE 0

safe_move_unguarded(o, b, t, src, dst) == ShutilMove(o, t, src, dst)

safe_move_clobbering(o, b, t, src, dst) ==
    IF ~Exists(o, b, dst) THEN ShutilMove(o, t, src, dst)
    ELSE LET i == FirstFree(o, b, dst)
         IN  ShutilMove(o, t, src, IF i # 0 THEN CandName(dst, i) ELSE dst)

safe_move(o, b, t, src, dst) ==
    IF ~Exists(o, b, dst) THEN ShutilMove(o, t, src, dst)
    ELSE LET i == FirstFree(o, b, dst)
         IN  IF i # 0 THEN ShutilMove(o, t, src, CandName(dst, i))
             ELSE [ok |-> FALSE, path |-> <<>>, err |-> "RuntimeError", out |-> o, tmp |-> t]

EmptyDir == [x \in {} |-> Old]

NoMove == [called |-> FALSE, dst |-> <<>>, ok |-> FALSE, path |-> <<>>,
           prev |-> EmptyDir, moved |-> Old, srcThere |-> FALSE]

\* the call safe_move(src, dst) on the directories, and the record of it
SafeMoveCall(src, dst, r) ==
    /\ r = safe_move(out, bulk, tmp, src, dst)
    /\ out' = r.out
    /\ tmp' = Rebased(r.tmp)
    /\ mv' = [called |-> TRUE, dst |-> dst, ok |-> r.ok, path |-> r.path, prev |-> out,
              moved |-> IF src \in DOMAIN tmp THEN Content(tmp[src]) ELSE Old,
              srcThere |-> src \in DOMAIN tmp]
    /\ UNCHANGED bulk

\* ------------------------------------------------ wait_for_new_download
\* list_files(download_dir)
list_files(dir) == DOMAIN dir

NewFiles_unscoped(dir, bef) == {n \in list_files(dir) : ~is_partial(n)}

\* new = [p for p in (after - before) if p.is_file() and not is_partial(p)]
NewFiles(dir, bef) == {n \in list_files(dir) \ bef : ~is_partial(n)}

Entry(kind, why, path) ==
    [f |-> fi, p |-> pi, kind |-> kind, why |-> why, path |-> path]

PhraseFails_leavingLoop(why) ==
    /\ log' = Append(log, Entry("ERROR", why, <<>>))
    /\ pi' = NumPhrases + 1
    /\ pc' = "phrase"

PhraseFails_reloading(why) ==
    /\ log' = Append(log, Entry("ERROR", why, <<>>))
    /\ pi' = pi + 1
    /\ pc' = "font"

\* except Exception as e: print("[ERROR] ...") of the phrase loop
PhraseFails(why) ==
    /\ log' = Append(log, Entry("ERROR", why, <<>>))
    /\ pi' = pi + 1
    /\ pc' = "phrase"

NoSan == [name |-> <<>>, max_len |-> 0, outs |-> <<>>]
NoSeen == [name |-> <<>>, size |-> None, since |-> None]

\* the call is over: its locals are gone, and time counts from 0 again
CallOver ==
    /\ before' = {}
    /\ deadline' = 0
    /\ fresh' = {}
    /\ last_size' = None
    /\ stable_since' = None
    /\ result' = <<>>
    /\ seen' = NoSeen
    /\ clock' = 0

InTime_inclusive(now, dl) == now <= dl

\* the loop condition: time.time() < deadline
InTime(now, dl) == now < dl

\* the size has been the same for the quiescence window
Quiet(now, since) == since # None /\ (now - since) >= QuiesceMs

\* the loop condition fails: raise TimeoutError
PollTimeout ==
    /\ pc = "wait" /\ wpc = "list"
    /\ ~InTime(clock, deadline)
    /\ wpc' = "timeout"
    /\ PhraseFails("TimeoutError")
    /\ CallOver
    /\ tmp' = Rebased(tmp)
    /\ UNCHANGED <<dls, fi, faults, slow>>
    /\ UNCHANGED outVars
    /\ UNCHANGED runVars

\* one listing of the directory; with nothing new: sleep and poll again
PollList ==
    /\ pc = "wait" /\ wpc = "list"
    /\ InTime(clock, deadline)
    /\ fresh' = NewFiles(tmp, before)
    /\ IF fresh' = {}
       THEN clock' = clock + PollMs /\ wpc' = "list"
       ELSE clock' = clock /\ wpc' = "stat"
    /\ UNCHANGED <<tmp, dls, pc, fi, pi, faults, before, deadline, last_size,
                   stable_since, result, seen, log, slow>>
    /\ UNCHANGED outVars
    /\ UNCHANGED runVars

\* p.stat() of a listed file that is gone: FileNotFoundError leaves the call
PollStatError ==
    /\ pc = "wait" /\ wpc = "stat"
    /\ \E n \in fresh : n \notin DOMAIN tmp
    /\ wpc' = "error"
    /\ PhraseFails("FileNotFoundError")
    /\ CallOver
    /\ tmp' = Rebased(tmp)
    /\ UNCHANGED <<dls, fi, faults, slow>>
    /\ UNCHANGED outVars
    /\ UNCHANGED runVars

Newest_any(files, dir) == files

\* max(new, key=lambda p: p.stat().st_mtime): the files max may return
Newest(files, dir) == {c \in files : \A p \in files : dir[p].mtime <= dir[c].mtime}

\* candidate = max(new, key=mtime); the size comparison; return or sleep
PollStat ==
    /\ pc = "wait" /\ wpc = "stat"
    /\ \A n \in fresh : n \in DOMAIN tmp
    /\ \E candidate \in Newest(fresh, tmp) :
        /\ LET size == tmp[candidate].size
               now  == clock
           IN  /\ seen' = IF seen.name = candidate /\ seen.size = size THEN seen
                          ELSE [name |-> candidate, size |-> size, since |-> now]
               /\ IF last_size # size
                  THEN /\ last_size' = size
                       /\ stable_since' = now
                       /\ clock' = clock + PollMs
                       /\ wpc' = "list"
                       /\ UNCHANGED <<result, pc>>
                  ELSE IF Quiet(now, stable_since)
                  THEN /\ wpc' = "returned"
                       /\ result' = candidate
                       /\ pc' = "move"
                       /\ UNCHANGED <<last_size, stable_since, clock>>
                  ELSE /\ clock' = clock + PollMs
                       /\ wpc' = "list"
                       /\ UNCHANGED <<last_size, stable_since, result, pc>>
    /\ UNCHANGED <<tmp, dls, fi, pi, faults, before, deadline, fresh, log, slow>>
    /\ UNCHANGED outVars
    /\ UNCHANGED runVars

Watcher == PollTimeout \/ PollList \/ PollStatError \/ PollStat

\* --------------------------------------------------------------------- main
\* collaborator failures are injected in the runs whose downloads are all prompt
MayFail == faults < MaxFaults /\ slow = 0

\* a download that is not the slow one is complete before the first poll: one
\* file under the first free final name (none when no name is free)
Prompt(t) ==
    IF \E k \in 1..Len(FinalNames) : NameFree(FinalNames[k])
    THEN LET k == CHOOSE i \in 1..Len(FinalNames) :
                    /\ NameFree(FinalNames[i])
                    /\ \A j \in 1..(i - 1) : ~NameFree(FinalNames[j])
         IN  [x \in DOMAIN tmp \cup {FinalNames[k]} |->
                IF x = FinalNames[k] THEN File(1, t, FALSE) ELSE tmp[x]]
    ELSE tmp

Start_unchecked ==
    /\ pc = "start"
    /\ pc' = "font" /\ fi' = 1 /\ driver' = LiveDriver
    /\ UNCHANGED <<pi, faults, log, slow, phrase_file, setups, san>>
    /\ UNCHANGED envVars /\ UNCHANGED watchVars /\ UNCHANGED outVars

\* main up to the font loop: load_phrases, the check of its result, make_driver
Start ==
    /\ pc = "start"
    /\ IF load_phrases(phrase_file) = <<>>
       THEN /\ pc' = "abort"
            /\ log' = Append(log, [f |-> 0, p |-> 0, kind |-> "FATAL",
                                   why |-> "no phrases", path |-> <<>>])
            /\ UNCHANGED <<fi, driver, faults>>
       ELSE \/ /\ pc' = "font" /\ fi' = 1 /\ driver' = LiveDriver
               /\ UNCHANGED <<log, faults>>
            \/ /\ MayFail
               /\ faults' = faults + 1
               /\ pc' = "crash"
               /\ UNCHANGED <<fi, driver, log>>
    /\ UNCHANGED <<pi, slow, phrase_file, setups, san>>
    /\ UNCHANGED envVars /\ UNCHANGED watchVars /\ UNCHANGED outVars

\* driver.get(URL); wait_for_ui_ready(driver); upload_font(driver, font_path)
FontSetupOk ==
    /\ pc = "font" /\ fi <= NumFonts
    /\ pc' = "phrase"
    /\ pi' = 1
    /\ driver' = Used(driver)
    /\ setups' = Append(setups, fi)
    /\ UNCHANGED <<fi, faults, log, slow, phrase_file, san>>
    /\ UNCHANGED envVars /\ UNCHANGED watchVars /\ UNCHANGED outVars

\* the same, raising: except Exception of the font loop
FontSetupFail_endingRun ==
    /\ pc = "font" /\ fi <= NumFonts
    /\ MayFail
    /\ faults' = faults + 1
    /\ log' = Append(log, [f |-> fi, p |-> 0, kind |-> "FONTERROR",
                           why |-> "setup", path |-> <<>>])
    /\ fi' = NumFonts + 1
    /\ driver' = Used(driver)
    /\ setups' = Append(setups, fi)
    /\ UNCHANGED <<pc, pi, slow, phrase_file, san>>
    /\ UNCHANGED envVars /\ UNCHANGED watchVars /\ UNCHANGED outVars

FontSetupFail ==
    /\ pc = "font" /\ fi <= NumFonts
    /\ MayFail
    /\ faults' = faults + 1
    /\ log' = Append(log, [f |-> fi, p |-> 0, kind |-> "FONTERROR",
                           why |-> "setup", path |-> <<>>])
    /\ fi' = fi + 1
    /\ driver' = Used(driver)
    /\ setups' = Append(setups, fi)
    /\ UNCHANGED <<pc, pi, slow, phrase_file, san>>
    /\ UNCHANGED envVars /\ UNCHANGED watchVars /\ UNCHANGED outVars

\* the font loop is exhausted; finally: driver.quit()
FontsDone ==
    /\ pc = "font" /\ fi > NumFonts
    /\ pc' = "done"
    /\ driver' = Quit(driver)
    /\ UNCHANGED <<fi, pi, faults, log, slow, phrase_file, setups, san>>
    /\ UNCHANGED envVars /\ UNCHANGED watchVars /\ UNCHANGED outVars

\* the phrase loop is exhausted: next font
PhrasesDone ==
    /\ pc = "phrase" /\ pi > NumPhrases
    /\ fi' = fi + 1
    /\ pc' = "font"
    /\ UNCHANGED <<pi, faults, log, slow>>
    /\ UNCHANGED envVars /\ UNCHANGED watchVars /\ UNCHANGED outVars
    /\ UNCHANGED runVars

\* set_phrase(driver, phrase, args.render_sleep), ending in its time.sleep
SetPhraseOk ==
    /\ pc = "phrase" /\ pi <= NumPhrases
    /\ pc' = "snap"
    /\ clock' = RenderSleepMs
    /\ tmp' = Rebased(tmp)
    /\ driver' = Used(driver)
    /\ UNCHANGED <<dls, fi, pi, faults, log, slow, phrase_file, setups, san>>
    /\ UNCHANGED watchVars /\ UNCHANGED outVars

SetPhraseFail ==
    /\ pc = "phrase" /\ pi <= NumPhrases
    /\ MayFail
    /\ faults' = faults + 1
    /\ PhraseFails("set_phrase")
    /\ driver' = Used(driver)
    /\ UNCHANGED <<fi, slow, phrase_file, setups, san>>
    /\ UNCHANGED envVars /\ UNCHANGED watchVars /\ UNCHANGED outVars

\* before = list_files(args.tmp)
Snapshot ==
    /\ pc = "snap"
    /\ before' = list_files(tmp)
    /\ pc' = "click"
    /\ UNCHANGED <<fi, pi, faults, log, slow, wpc, deadline, fresh, last_size,
                   stable_since, result, seen>>
    /\ UNCHANGED envVars /\ UNCHANGED outVars
    /\ UNCHANGED runVars

ClickFail ==
    /\ pc = "click"
    /\ MayFail
    /\ faults' = faults + 1
    /\ PhraseFails("click_download")
    /\ before' = {}
    /\ driver' = Used(driver)
    /\ UNCHANGED <<fi, slow, wpc, deadline, fresh, last_size, stable_since, result, seen>>
    /\ UNCHANGED <<phrase_file, setups, san>>
    /\ UNCHANGED envVars /\ UNCHANGED outVars

\* click_download(driver) starts a download; wait_for_new_download begins:
\* deadline = time.time() + timeout_s, nothing observed yet
ClickOk ==
    /\ pc = "click"
    /\ IF Trigger(fi, pi) = slow
       THEN /\ dls' = [cur |-> NewDl(Trigger(fi, pi)), old |-> dls.cur]
            /\ tmp' = tmp
       ELSE /\ dls' = [cur |-> IdleDl, old |-> dls.cur]
            /\ tmp' = Prompt(Trigger(fi, pi))
    /\ clock' = clock
    /\ deadline' = clock + TimeoutS * 1000
    /\ last_size' = None
    /\ stable_since' = None
    /\ fresh' = {}
    /\ result' = <<>>
    /\ seen' = NoSeen
    /\ wpc' = "list"
    /\ pc' = "wait"
    /\ driver' = Used(driver)
    /\ UNCHANGED <<fi, pi, faults, before, log, slow, phrase_file, setups, san>>
    /\ UNCHANGED outVars

\* final_path = safe_move(downloaded, args.output / out_name); print("[OK] ...")
Move ==
    /\ pc = "move"
    /\ \E r \in {safe_move(out, bulk, tmp, result, OutName(fi, pi))} :
        /\ SafeMoveCall(result, OutName(fi, pi), r)
        /\ IF r.ok
           THEN /\ log' = Append(log, Entry("OK", "", r.path))
                /\ pi' = pi + 1
                /\ pc' = "phrase"
           ELSE PhraseFails(r.err)
    /\ CallOver
    /\ UNCHANGED <<dls, fi, faults, slow, wpc>>
    /\ UNCHANGED runVars

Interrupted_unreleased ==
    /\ pc \in {"font", "phrase"}
    /\ MayFail
    /\ faults' = faults + 1
    /\ pc' = "raised"
    /\ UNCHANGED <<fi, pi, log, slow>> /\ UNCHANGED runVars
    /\ UNCHANGED envVars /\ UNCHANGED watchVars /\ UNCHANGED outVars

\* an exception that is no Exception (KeyboardInterrupt) passes both handlers
\* and leaves the font loop; finally: driver.quit()
Interrupted ==
    /\ pc \in {"font", "phrase"}
    /\ MayFail
    /\ faults' = faults + 1
    /\ pc' = "raised"
    /\ driver' = Quit(driver)
    /\ UNCHANGED <<fi, pi, log, slow, phrase_file, setups, san>>
    /\ UNCHANGED envVars /\ UNCHANGED watchVars /\ UNCHANGED outVars

Main ==
    \/ Start \/ FontSetupOk \/ FontSetupFail \/ FontsDone \/ PhrasesDone
    \/ SetPhraseOk \/ SetPhraseFail \/ Snapshot \/ ClickFail \/ ClickOk \/ Move
    \/ Interrupted

\* the output directory at the start: empty, or the first pair's name taken
\* together with every numbered variant of it
OutInits ==
    { [out |-> EmptyDir, bulk |-> NoBulk],
      [out |-> [x \in {OutName(1, 1)} |-> Old],
       bulk |-> [base |-> OutName(1, 1), hi |-> RangeStop - 1]] }

Init ==
    /\ clock = 0
    /\ tmp = [x \in {} |-> File(0, 0, FALSE)]
    /\ dls = [cur |-> IdleDl, old |-> IdleDl]
    /\ pc = "start"
    /\ fi = 1 /\ pi = 1
    /\ faults = 0
    /\ before = {}
    /\ wpc = "idle"
    /\ deadline = 0
    /\ fresh = {}
    /\ last_size = None /\ stable_since = None
    /\ result = <<>>
    /\ seen = NoSeen
    /\ \E o \in OutInits : out = o.out /\ bulk = o.bulk
    /\ mv = NoMove
    /\ log = <<>>
    /\ slow \in 0..(NumFonts * NumPhrases)
    /\ phrase_file \in PhraseFiles
    /\ phrase_file # GoodFile => slow = 0 /\ bulk = NoBulk
    /\ driver = NoDriver
    /\ setups = <<>>
    /\ san = NoSan

Next == Main \/ Watcher \/ Downloader

Spec == Init /\ [][Next]_vars

\* ------------------------------------------------- one download cycle alone
\* One pass of the phrase loop body from `before = list_files(args.tmp)` on,
\* for the first pair, whose download takes its time.
InitWatch ==
    /\ clock = 0
    /\ tmp = [x \in {} |-> File(0, 0, FALSE)]
    /\ dls = [cur |-> IdleDl, old |-> IdleDl]
    /\ pc = "snap"
    /\ fi = 1 /\ pi = 1
    /\ faults = 0
    /\ before = {}
    /\ wpc = "idle"
    /\ deadline = 0
    /\ fresh = {}
    /\ last_size = None /\ stable_since = None
    /\ result = <<>>
    /\ seen = NoSeen
    /\ \E o \in OutInits : out = o.out /\ bulk = o.bulk
    /\ mv = NoMove
    /\ log = <<>>
    /\ slow = 1
    /\ phrase_file = GoodFile
    /\ driver = LiveDriver
    /\ setups = <<1>>
    /\ san = NoSan

NextWatch == Snapshot \/ ClickOk \/ Watcher \/ Downloader \/ Move

\* the program keeps running: a poll that can be taken is taken
SpecWatch == InitWatch /\ [][NextWatch]_vars /\ WF_vars(Watcher)

\* ------------------------------------------------------- safe_move alone
MaxMoves == 2     \* calls of safe_move in a row

MvSrcs == {FinalNames[1], FinalNames[2]}
MvDsts == {OutName(1, 1), OutName(1, 3)}
MvOutNames == {OutName(1, 1), CandName(OutName(1, 1), 1), CandName(OutName(1, 1), 2),
               CandName(OutName(1, 3), 1)}

InitMove ==
    /\ clock = 0
    /\ tmp \in {[n \in T |-> File(1, 1, FALSE)] : T \in {{FinalNames[1]}, MvSrcs}}
    /\ dls = [cur |-> IdleDl, old |-> IdleDl]
    /\ pc = "mv"
    /\ fi = 1 /\ pi = 1
    /\ faults = 0
    /\ before = {}
    /\ wpc = "idle"
    /\ deadline = 0
    /\ fresh = {}
    /\ last_size = None /\ stable_since = None
    /\ result = <<>>
    /\ seen = NoSeen
    /\ out \in {[n \in S |-> Old] : S \in SUBSET MvOutNames}
    /\ bulk \in {NoBulk} \cup {[base |-> OutName(1, 1), hi |-> h] :
                                h \in {9, 99, RangeStop - 2, RangeStop - 1}}
    /\ \A n \in DOMAIN out : ~InBulk(bulk, n)
    /\ mv = NoMove
    /\ log = <<>>
    /\ slow = 0
    /\ phrase_file = GoodFile
    /\ driver = NoDriver
    /\ setups = <<>>
    /\ san = NoSan

\* safe_move(src, dst) called on its own
MvCall ==
    /\ pc = "mv"
    /\ Len(log) < MaxMoves
    /\ \E src \in MvSrcs, dst \in MvDsts :
        \E r \in {safe_move(out, bulk, tmp, src, dst)} :
            /\ SafeMoveCall(src, dst, r)
            /\ log' = Append(log, Entry(IF r.ok THEN "OK" ELSE "ERROR", r.err, r.path))
    /\ UNCHANGED <<clock, dls, pc, fi, pi, faults, slow>>
    /\ UNCHANGED watchVars
    /\ UNCHANGED runVars

NextMove == MvCall

SpecMove == InitMove /\ [][NextMove]_vars

\* ---------------------------------------------------- sanitize_stem alone
SanLen == 4       \* longest name drawn from SanChars
SanMax == 3       \* largest max_len tried besides the default

SanChars == {"a", "_", " ", "!", "."}
HelloWorld2024 == <<"H","e","l","l","o",","," ","W","o","r","l","d","!"," ","/"," ","2","0","2","4">>
SanNames == UNION {[1..k -> SanChars] : k \in 0..SanLen} \cup {HelloWorld2024}

InitSan ==
    /\ clock = 0
    /\ tmp = [x \in {} |-> File(0, 0, FALSE)]
    /\ dls = [cur |-> IdleDl, old |-> IdleDl]
    /\ pc = "san"
    /\ fi = 1 /\ pi = 1
    /\ faults = 0
    /\ before = {}
    /\ wpc = "idle"
    /\ deadline = 0
    /\ fresh = {}
    /\ last_size = None /\ stable_since = None
    /\ result = <<>>
    /\ seen = NoSeen
    /\ out = EmptyDir /\ bulk = NoBulk
    /\ mv = NoMove
    /\ log = <<>>
    /\ slow = 0
    /\ phrase_file = GoodFile
    /\ driver = NoDriver
    /\ setups = <<>>
    /\ san \in {[name |-> s, max_len |-> m, outs |-> <<>>] :
                  s \in SanNames, m \in (1..SanMax) \cup {MaxLenDefault}}

\* sanitize_stem(name, max_len), and once more on what it returned
Sanitize ==
    /\ pc = "san"
    /\ Len(san.outs) < 2
    /\ san' = [san EXCEPT !.outs =
                 Append(san.outs, sanitize_stem(IF san.outs = <<>> THEN san.name
                                                ELSE Last(san.outs), san.max_len))]
    /\ UNCHANGED <<pi, fi, pc, faults, log, slow, phrase_file, driver, setups>>
    /\ UNCHANGED envVars /\ UNCHANGED watchVars /\ UNCHANGED outVars

NextSan == Sanitize

SpecSan == InitSan /\ [][NextSan]_vars

\* ================================================================== claims
Returned == pc = "move" /\ wpc = "returned"
Polling == wpc \in {"list", "stat"}

\* C1: a file is returned only after polls spanning the full quiescence window
\* (1.0 s) have observed that same file at the same size, also when the most
\* recently modified candidate changed from one file to another between polls.
C1_ReturnedFileWasQuiet ==
    Returned => (seen.name = result /\ clock - seen.since >= 1000)

\* C2: the file returned never bears a partial-download name: its last
\* component is none of part, tmp, crdownload in any case.
C2_NeverReturnsPartial ==
    Returned => Last(result) \notin {"part", "PART", "tmp", "TMP", "crdownload"}

\* the download went through a partial file, and its renamed form is returned
C2_Witness ==
    Returned /\ result \in DOMAIN tmp /\ tmp[result].viaPart

\* C3: every call ends, in a return or an error; no poll starts once the
\* deadline has passed, the last sleep ends less than a poll interval after
\* the deadline, and a call still running at the deadline fails with the
\* timeout error.
C3_Terminates ==
    /\ [](wpc = "stat" => clock < deadline)
    /\ [](Polling => clock < deadline + 200)
    /\ [][(Polling /\ clock >= deadline /\ wpc' # wpc) =>
            (wpc' = "timeout" /\ Last(log').why = "TimeoutError")]_vars
    /\ Polling ~> (wpc \in {"returned", "timeout", "error"})

\* the call timed out although a new file with a final name was there
C3_Witness ==
    /\ wpc = "timeout"
    /\ log # <<>> /\ Last(log).why = "TimeoutError"
    /\ \E n \in DOMAIN tmp : Len(n) = 2 /\ tmp[n].trig = 1

\* C4: when a file is returned, the downloader has finished with it: between
\* the return and the move, no step writes to the file or replaces it.
C4_ReturnedFileComplete ==
    [][(Returned /\ result \in DOMAIN tmp /\ pc' = pc) =>
          (result \in DOMAIN tmp' /\ tmp'[result] = tmp[result])]_vars

\* C5: the file returned for a pair comes from that pair's own click.
C5_OwnTrigger ==
    (Returned /\ result \in DOMAIN tmp) => tmp[result].trig = Trigger(fi, pi)

\* ------------------------------------------------ the relocator's claims
\* what the claims call stem_NN.suffix, for a destination that ends in .stl:
\* the stem, an underscore, i in decimal with at least two digits, .stl
Width(i) == IF i < 100 THEN 2 ELSE IF i < 1000 THEN 3 ELSE 4
Pow10(k) == IF k = 0 THEN 1 ELSE IF k = 1 THEN 10 ELSE IF k = 2 THEN 100 ELSE 1000
Numbered(dst, i) ==
    SubSeq(dst, 1, Len(dst) - 4) \o <<"_">>
        \o [k \in 1..Width(i) |-> Digits[((i \div Pow10(Width(i) - k)) % 10) + 1]]
        \o <<".", "s", "t", "l">>

\* the name was in the directory before the last call
WasThere(name) == Exists(mv.prev, bulk, name)
Added == {n \in DOMAIN out : ~InBulk(bulk, n) /\ (bulk # NoBulk => n # bulk.base)}

\* C6: safe_move overwrites nothing: every file there before the call is
\* there after it with the same content, and the path returned is a name
\* that was not there before.
C6_NeverOverwrites ==
    mv.called =>
        /\ \A n \in DOMAIN mv.prev : n \in DOMAIN out /\ out[n] = mv.prev[n]
        /\ \A n \in DOMAIN out : ~InBulk(bulk, n)
        /\ mv.ok => (~WasThere(mv.path) /\ out[mv.path] = mv.moved)

\* a move that succeeded although the desired destination was taken
C6_Witness == mv.called /\ mv.ok /\ WasThere(mv.dst)

\* C7: a free destination is used as it is and no numbered variant appears;
\* a taken one gives stem_NN.suffix for the least i >= 1 whose name is free
\* (a.stl taken gives a_01.stl; a.stl and a_01.stl taken give a_02.stl).
C7_LeastFreeName ==
    (mv.called /\ mv.ok) =>
        IF ~WasThere(mv.dst)
        THEN mv.path = mv.dst /\ DOMAIN out = DOMAIN mv.prev \cup {mv.dst}
        ELSE \E i \in 1..9999 :
                /\ mv.path = Numbered(mv.dst, i)
                /\ \A j \in 1..(i - 1) :
                      (mv.dst = bulk.base /\ j <= bulk.hi) \/ WasThere(Numbered(mv.dst, j))
                /\ DOMAIN out = DOMAIN mv.prev \cup {mv.path}

\* a.stl and a_01.stl were taken and the call returned a_02.stl
C7_Witness ==
    /\ mv.called /\ mv.ok
    /\ mv.dst = <<"F", "1", "_", "_", "a", ".", "s", "t", "l">>
    /\ DOMAIN mv.prev = {mv.dst, <<"F", "1", "_", "_", "a", "_", "0", "1", ".", "s", "t", "l">>}
    /\ bulk = NoBulk
    /\ mv.path = <<"F", "1", "_", "_", "a", "_", "0", "2", ".", "s", "t", "l">>

\* the destination and all of _01 .. _9999 are taken
Exhausted(dst) == dst \in DOMAIN out /\ bulk.base = dst /\ bulk.hi >= 9999

\* C8: with the destination and every name _01 .. _9999 taken, safe_move
\* raises and moves nothing, and main logs the error for the pair and goes
\* on to the next phrase.
C8_ExhaustionIsPhraseError ==
    [][(pc = "move" /\ pc' # pc /\ Exhausted(OutName(fi, pi))) =>
          /\ out' = out
          /\ DOMAIN tmp' = DOMAIN tmp
          /\ \A n \in DOMAIN tmp : tmp'[n].size = tmp[n].size
          /\ ~mv'.ok
          /\ log' = Append(log, [f |-> fi, p |-> pi, kind |-> "ERROR",
                                 why |-> "RuntimeError", path |-> <<>>])
          /\ pc' = "phrase" /\ pi' = pi + 1 /\ fi' = fi]_vars

\* the search was exhausted for one pair and a later pair was moved all right
C8_Witness ==
    \E k \in 1..Len(log) :
        /\ log[k].why = "RuntimeError"
        /\ \E m \in (k + 1)..Len(log) : log[m].kind = "OK"

\* C9: the files added to the output directory are exactly the paths of the
\* pairs logged OK, one file each, no two of them the same; a failed pair
\* adds nothing.
OKs == {k \in 1..Len(log) : log[k].kind = "OK"}
C9_OneArtifactPerSuccess ==
    /\ Added = {log[k].path : k \in OKs}
    /\ Cardinality(Added) = Cardinality(OKs)
    /\ \A j, k \in OKs : j # k => log[j].path # log[k].path

\* two pairs with the same target name both succeeded, and one pair failed
C9_Witness ==
    /\ \E j, k \in OKs :
          j # k /\ OutName(log[j].f, log[j].p) = OutName(log[k].f, log[k].p)
    /\ \E k \in 1..Len(log) : log[k].kind = "ERROR"

\* C10: a failing pair is logged with its font and phrase and every other
\* pair of a font whose setup succeeded is attempted once, in font order then
\* phrase order; with exactly one failure, of set_phrase, all other pairs
\* yield an artifact (5 of 2 x 3).
RECURSIVE Expected(_)
Expected(f) ==
    IF f = 0 THEN <<>>
    ELSE Expected(f - 1) \o
         (IF \E k \in 1..Len(log) : log[k].f = f /\ log[k].kind = "FONTERROR"
          THEN << <<f, 0>> >>
          ELSE [p \in 1..(IF f < fi THEN NumPhrases
                          ELSE IF pc = "font" THEN 0 ELSE pi - 1) |-> <<f, p>>])
Errors == {k \in 1..Len(log) : log[k].kind = "ERROR"}
C10_PhraseIsolation ==
    /\ pc \notin {"start", "mv", "abort", "raised"} =>
          [k \in 1..Len(log) |-> <<log[k].f, log[k].p>>]
              = Expected(IF fi > NumFonts THEN NumFonts ELSE fi)
    /\ (/\ pc = "done"
        /\ Cardinality(Errors) = 1
        /\ \A k \in 1..Len(log) : log[k].kind # "FONTERROR") =>
          /\ Cardinality(OKs) = NumFonts * NumPhrases - 1
          /\ Cardinality(Added) = NumFonts * NumPhrases - 1

\* the run is over: one set_phrase failed and every other pair has its artifact
C10_Witness ==
    /\ pc = "done"
    /\ Cardinality(Errors) = 1
    /\ \E k \in Errors : log[k].why = "set_phrase" /\ k < Len(log)
    /\ Cardinality(Added) = NumFonts * NumPhrases - 1

\* ------------------------------------------------ the orchestrator's claims
FontFailed(f) == \E k \in 1..Len(log) : log[k].f = f /\ log[k].kind = "FONTERROR"
Finished == pc = "done"

\* C11: a font whose setup fails is logged once, none of its phrases is
\* attempted and it adds no artifact; the next font is processed, and all of
\* its phrases are attempted (with no other failure, all of them succeed).
C11_FontIsolation ==
    /\ \A f \in 1..NumFonts : FontFailed(f) =>
          /\ Cardinality({k \in 1..Len(log) : log[k].f = f}) = 1
          /\ \A k \in OKs : log[k].f # f
          /\ fi > f
    /\ Finished => \A f \in 1..NumFonts : ~FontFailed(f) =>
          \A p \in 1..NumPhrases :
              Cardinality({k \in 1..Len(log) : log[k].f = f /\ log[k].p = p}) = 1
    /\ (Finished /\ Cardinality(Errors) = 0) =>
          Cardinality(Added) = NumPhrases * Cardinality({f \in 1..NumFonts : ~FontFailed(f)})

\* the setup of the first font failed, and every phrase of the next succeeded
C11_Witness ==
    /\ Finished /\ FontFailed(1) /\ ~FontFailed(2)
    /\ Cardinality({k \in OKs : log[k].f = 2}) = NumPhrases
    /\ Cardinality(Added) = NumPhrases * (NumFonts - 1)

\* C12: once make_driver has returned a session, every way out of main calls
\* driver.quit exactly once, and nothing uses the driver after it: a run that
\* ended holds a session quit once, a run that has not ended holds a live one.
Ended == pc \in {"done", "raised"}
C12_DriverReleased ==
    /\ ~driver.stale
    /\ driver.quits <= 1
    /\ Ended => (driver.st = "quit" /\ driver.quits = 1)
    /\ pc \in {"start", "abort", "crash"} => driver = NoDriver
    /\ pc \notin {"start", "abort", "crash", "done", "raised", "mv"} =>
          (driver.st = "live" /\ driver.quits = 0)

\* an error left the font loop after a pair had been processed, and the
\* session was quit
C12_Witness == pc = "raised" /\ driver.quits = 1 /\ Len(log) >= 1

\* C13: the per-font setup is begun once for each font visited, in font
\* order, before any phrase of that font, and never again while the phrases
\* of that font are processed, a failed phrase included.
InPhrases == pc \in {"phrase", "snap", "click", "wait", "move"}
C13_SetupOncePerFont ==
    /\ \A i \in 1..Len(setups) : setups[i] = i
    /\ Len(setups) <= fi
    /\ InPhrases => Len(setups) = fi
    /\ (pc = "font" \/ Finished) => Len(setups) = fi - 1
    /\ \A k \in 1..Len(log) : log[k].p >= 1 => log[k].f <= Len(setups)

\* a phrase of the first font failed, later phrases of it were processed, and
\* the run ended with one setup for each font
C13_Witness ==
    /\ Finished /\ setups = [i \in 1..NumFonts |-> i]
    /\ \E k \in Errors : log[k].f = 1 /\ \E m \in OKs : m > k /\ log[m].f = 1

\* a phrase file that is missing or holds no line with a phrase: every line
\* is blank or has # as its first character that is no white space
NoPhrase(file) ==
    \/ ~file.exists
    \/ \A i \in 1..Len(file.lines) :
          LET l == file.lines[i]
          IN  \A j \in 1..Len(l) :
                 (l[j] \notin {" ", "\t"} /\ \A k \in 1..(j - 1) : l[k] \in {" ", "\t"})
                     => l[j] = "#"

\* C14: with a phrase file that is missing or yields no phrase, main ends
\* before a browser session exists: no session, no font visited, nothing
\* downloaded, no artifact.
C14_NoPhrasesAborts ==
    NoPhrase(phrase_file) =>
        /\ pc \in {"start", "abort"}
        /\ driver = NoDriver
        /\ setups = <<>>
        /\ DOMAIN tmp = {} /\ Added = {}
        /\ \A k \in 1..Len(log) : log[k].kind = "FATAL"
        /\ Len(log) = IF pc = "abort" THEN 1 ELSE 0

\* the run was aborted for a phrase file that exists and holds only comments
\* and blank lines
C14_Witness ==
    pc = "abort" /\ phrase_file.exists /\ Len(phrase_file.lines) >= 2

\* ------------------------------------------------- the sanitizer's claims
\* C15: sanitize_stem applied to its own output, with the same max_len,
\* returns that output unchanged, truncated outputs included.
C15_Idempotent ==
    Len(san.outs) = 2 => san.outs[2] = san.outs[1]

\* letters, digits, underscore, hyphen and dot
StemChars ==
    {"a", "b", "F", "i", "t", "e", "m", "s", "l", "H", "o", "W", "r", "d", "M", "y", "n",
     "0", "1", "2", "3", "4", "5", "6", "7", "8", "9", "_", "-", "."}

\* C16: the output of sanitize_stem is not empty, no longer than max_len, made
\* of letters, digits, underscore, hyphen and dot only, has no two underscores
\* in a row and none at either end; a name with no allowed character gives
\* "item" (where max_len leaves room for it), and "Hello, World! / 2024" gives
\* "Hello_World_2024".
C16_WellFormedStem ==
    Len(san.outs) >= 1 =>
        LET o == san.outs[1]
        IN  /\ o # <<>>
            /\ Len(o) <= san.max_len
            /\ \A i \in 1..Len(o) : o[i] \in StemChars
            /\ \A i \in 1..(Len(o) - 1) : ~(o[i] = "_" /\ o[i + 1] = "_")
            /\ o[1] # "_" /\ o[Len(o)] # "_"
            /\ ((\A i \in 1..Len(san.name) : san.name[i] \notin StemChars) /\ san.max_len >= 4)
                  => o = <<"i", "t", "e", "m">>
            /\ (san.name = HelloWorld2024 /\ san.max_len = 80) =>
                  o = <<"H","e","l","l","o","_","W","o","r","l","d","_","2","0","2","4">>

\* ---------------------------------------------------- the naming claim
\* the name the claim gives the artifact of font f and phrase p
WantNames ==
    [f \in 1..NumFonts |-> [p \in 1..NumPhrases |->
        sanitize_stem(<<"F">> \o Dec(f), 80) \o <<"_", "_">>
            \o sanitize_stem(Phrases[p], 80) \o <<".", "s", "t", "l">>]]
Want(f, p) == WantNames[f][p]
\* the name main builds for MyFont.ttf and 'Hello World!'
MyFontHelloWorld ==
    out_name(<<"M","y","F","o","n","t",".","t","t","f">>,
             <<"H","e","l","l","o"," ","W","o","r","l","d","!">>)

\* name is want with _ and two or more digits put before its .stl
IsNumberedOf(name, want) ==
    LET n == Len(want) - 4
    IN  /\ Len(name) >= Len(want) + 3
        /\ SubSeq(name, 1, n) = SubSeq(want, 1, n)
        /\ name[n + 1] = "_"
        /\ \A i \in (n + 2)..(Len(name) - 4) : name[i] \in DigitSet
        /\ SubSeq(name, Len(name) - 3, Len(name)) = <<".", "s", "t", "l">>

\* C17: the artifact of a successful pair is a file of the output directory
\* named sanitize_stem(font stem)__sanitize_stem(phrase).stl if that name was
\* free, and that name with a number otherwise; MyFont.ttf with 'Hello World!'
\* is named MyFont__Hello_World.stl.
C17_ArtifactName ==
    /\ \A k \in OKs :
          /\ log[k].path \in DOMAIN out
          /\ \/ log[k].path = Want(log[k].f, log[k].p)
             \/ IsNumberedOf(log[k].path, Want(log[k].f, log[k].p))
    /\ (mv.called /\ mv.ok) =>
          \E k \in OKs :
              /\ log[k].path = mv.path
              /\ mv.dst = Want(log[k].f, log[k].p)
              /\ IF WasThere(mv.dst) THEN IsNumberedOf(mv.path, mv.dst)
                 ELSE mv.path = mv.dst
    /\ MyFontHelloWorld
          = <<"M","y","F","o","n","t","_","_","H","e","l","l","o","_","W","o","r","l","d",
              ".","s","t","l">>

\* one pair got the plain name, and a later pair of the same name a numbered one
C17_Witness ==
    \E j, k \in OKs :
        /\ j < k
        /\ Want(log[j].f, log[j].p) = Want(log[k].f, log[k].p)
        /\ log[j].path = Want(log[j].f, log[j].p)
        /\ IsNumberedOf(log[k].path, Want(log[k].f, log[k].p))
        /\ mv.path = log[k].path

\* ------------------------------------------------ further watcher claims
\* C18: a file of the before snapshot is never returned, however long its
\* size has been the same and however recent its modification time.
C18_NeverReturnsOldFile ==
    Returned => result \notin before

\* a file returned while a file of the snapshot, modified later, is there
C18_Witness ==
    /\ Returned /\ result \in DOMAIN tmp
    /\ \E n \in before : n \in DOMAIN tmp /\ tmp[n].mtime > tmp[result].mtime

\* the names the claims call partial
PartialName(n) ==
    Last(n) \in {"part", "PART", "Part", "tmp", "TMP", "Tmp", "crdownload", "CRDOWNLOAD"}

\* C19: a poll lists the new files that are not partial, and the candidate
\* whose size it tracks, and which it may return, is one of them with the
\* greatest modification time.
C19_NewestCandidate ==
    [][/\ (wpc = "list" /\ wpc' = "stat") =>
             fresh' = {n \in DOMAIN tmp : n \notin before /\ ~PartialName(n)}
       /\ (wpc = "stat" /\ wpc' \in {"list", "returned"}) =>
             /\ seen'.name \in fresh
             /\ \A p \in fresh : tmp[p].mtime <= tmp[seen'.name].mtime
             /\ last_size' = tmp[seen'.name].size
             /\ wpc' = "returned" => result' = seen'.name]_vars

\* the poll returned the newest of two new files whose times differ
C19_Witness ==
    /\ Returned
    /\ \E p \in fresh : p # result /\ p \in DOMAIN tmp /\ result \in DOMAIN tmp
                        /\ tmp[p].mtime < tmp[result].mtime

\* C20: a call of wait_for_new_download ends by returning a file or by the
\* timeout error, never by another error, also when the candidate is deleted
\* or renamed between the listing and the stat calls.
C20_OnlyTimeoutFails ==
    [][(Polling /\ wpc' \notin {"list", "stat", "returned"}) =>
          (wpc' = "timeout" /\ Last(log').why = "TimeoutError")]_vars

====
